---- MODULE Spec2Model ----
(***************************************************************************)
(* Model of the wasmi_v1 function translator front end:                    *)
(*   - ControlFlowStack  (engine/func_builder/control_stack.rs)            *)
(*   - FunctionBuilder   (engine/func_builder/mod.rs)                      *)
(*   - InstructionsBuilder label table (engine/func_builder/inst_builder,  *)
(*     not part of the sources at hand; modelled from its specification)   *)
(*                                                                         *)
(* A Rust panic ends the run: `panicked` becomes TRUE and no operation is  *)
(* enabled afterwards.  `ret` records the last operation and its result.   *)
(***************************************************************************)
EXTENDS Integers, Sequences, FiniteSets, TLC

VARIABLES
    frames,            \* ControlFlowStack.frames : Vec<ControlFrame>
    insts,             \* InstructionsBuilder: emitted instructions
    labels,            \* InstructionsBuilder: label table, label l is labels[l+1]
    relocs,            \* InstructionsBuilder: registered relocations, in order
    value_stack,       \* FunctionBuilder.value_stack (emulated value stack)
    len_locals,        \* FunctionBuilder.len_locals
    max_stack_height,  \* FunctionBuilder.max_stack_height
    reachable,         \* FunctionBuilder.reachable
    panicked,          \* TRUE once an operation has panicked
    ret,               \* the last operation and what it returned
    log,               \* history: the pushes and successful pops on `frames`
    locals_log,        \* history: the amounts of the translate_locals calls
    store,             \* Store: host state, linear memory, globals
    stack,             \* the executor's value stack and call stack
    outcome            \* the last runtime operation and what it returned

vars == <<frames, insts, labels, relocs, value_stack, len_locals,
          max_stack_height, reachable, panicked, ret, log, locals_log,
          store, stack, outcome>>

runtime == <<store, stack, outcome>>

builder == <<insts, labels, relocs, value_stack, len_locals,
             max_stack_height, reachable>>

-----------------------------------------------------------------------------
(* Bounds of the model *)

MaxDepth == 3       \* frames on the control flow stack
MaxOps == 5         \* pushes and pops recorded in the history
MaxLabel == 2       \* label indices used by the frames pushed directly
MaxLocals == 2      \* largest `amount` of one translate_locals call
MaxLenLocals == 3   \* largest len_locals reached
MaxLocalsCalls == 2 \* translate_locals calls recorded in the history
MaxResolveCalls == 1 \* relocations registered by direct try_resolve_label calls

-----------------------------------------------------------------------------
(* ControlFrame: the variants constructed in mod.rs *)

Block(end_label) == [kind |-> "Block", else_label |-> -1, end_label |-> end_label, header |-> -1]

Loop(header) == [kind |-> "Loop", else_label |-> -1, end_label |-> -1, header |-> header]

If(else_label, end_label) == [kind |-> "If", else_label |-> else_label, end_label |-> end_label, header |-> -1]

\* the frame that replaces an If frame when `else` is visited
Else(end_label) == [kind |-> "Else", else_label |-> -1, end_label |-> end_label, header |-> -1]

NoFrame == [kind |-> "None", else_label |-> -1, end_label |-> -1, header |-> -1]

\* Option<&ControlFrame>: the slot (1-based position in frames) and its frame
Some(i, f) == [some |-> TRUE, idx |-> i, frame |-> f]

None == [some |-> FALSE, idx |-> 0, frame |-> NoFrame]

\* Reloc: how a use site of an unresolved label is to be patched
Reloc_Br(inst_idx) == [kind |-> "Br", inst_idx |-> inst_idx, target_idx |-> 0]

Reloc_BrTable(inst_idx, target_idx) ==
    [kind |-> "BrTable", inst_idx |-> inst_idx, target_idx |-> target_idx]

NoReloc == [kind |-> "None", inst_idx |-> 0, target_idx |-> 0]

\* the result record of an operation
Ret(op, panic, opt, arg, out) ==
    [op |-> op, panic |-> panic, some |-> opt.some, idx |-> opt.idx,
     frame |-> opt.frame, arg |-> arg, out |-> out, reloc |-> NoReloc,
     block_type |-> "None"]

-----------------------------------------------------------------------------
(* The Vec operations ControlFlowStack is built on, as the code calls them *)

Vec_push_front(v, x) == <<x>> \o v

Vec_push(v, x) == Append(v, x)

Vec_pop_first(v) == IF Len(v) > 0 THEN Some(1, v[1]) ELSE None

Vec_pop(v) == IF Len(v) > 0 THEN Some(Len(v), v[Len(v)]) ELSE None

\* what remains of v after Vec::pop took slot i
Vec_rest(v, i) == [k \in 1..(Len(v) - 1) |-> IF k < i THEN v[k] ELSE v[k + 1]]

Vec_first_top(v) == IF Len(v) > 0 THEN Some(Len(v), v[Len(v)]) ELSE None

Vec_first(v) == IF Len(v) > 0 THEN Some(1, v[1]) ELSE None

Vec_last_mut_below(v) == IF Len(v) > 1 THEN Some(Len(v) - 1, v[Len(v) - 1]) ELSE None

Vec_last_mut(v) == IF Len(v) > 0 THEN Some(Len(v), v[Len(v)]) ELSE None

Iter_nth_back_front(v, n) == IF n < Len(v) THEN Some(n + 1, v[n + 1]) ELSE None

Iter_nth_back_clamped(v, n) ==
    IF n < Len(v) THEN Some(Len(v) - n, v[Len(v) - n])
    ELSE IF Len(v) > 0 THEN Some(1, v[1]) ELSE None

Iter_nth_back(v, n) == IF n < Len(v) THEN Some(Len(v) - n, v[Len(v) - n]) ELSE None

len_capacity(v) == MaxDepth

len(v) == Len(v)

-----------------------------------------------------------------------------
(* History of the stack: what was pushed and popped, in order *)

PushEv(f) == [ev |-> "push", frame |-> f]

PopEv == [ev |-> "pop", frame |-> NoFrame]

\* sample frames for a direct user of the stack
FrameSamples ==
    {Block(l) : l \in 0..MaxLabel} \cup {Loop(0)} \cup {If(0, 1)}

Pushes(h) == Cardinality({i \in 1..Len(h) : h[i].ev = "push"})

Pops(h) == Cardinality({i \in 1..Len(h) : h[i].ev = "pop"})

Front(h) == SubSeq(h, 1, Len(h) - 1)

\* Scanning the history h backwards from event i: the frame of the (d+1)-th
\* most recent push that no later pop has taken (k pops are still to be
\* matched with pushes further back); NoFrame if there is none.
RECURSIVE ScanBack(_, _, _, _)
ScanBack(h, i, k, d) ==
    IF i = 0 THEN NoFrame
    ELSE IF h[i].ev = "pop" THEN ScanBack(h, i - 1, k + 1, d)
    ELSE IF k > 0 THEN ScanBack(h, i - 1, k - 1, d)
    ELSE IF d = 0 THEN h[i].frame
    ELSE ScanBack(h, i - 1, 0, d - 1)

NthRecent(h, d) == ScanBack(h, Len(h), 0, d)

\* Scanning the history h forwards from event i with n frames live: the
\* frame pushed first among those still live at the end (cand so far).
RECURSIVE ScanFwd(_, _, _, _)
ScanFwd(h, i, n, cand) ==
    IF i > Len(h) THEN cand
    ELSE IF h[i].ev = "push"
         THEN ScanFwd(h, i + 1, n + 1, IF n = 0 THEN h[i].frame ELSE cand)
         ELSE ScanFwd(h, i + 1, n - 1, IF n = 1 THEN NoFrame ELSE cand)

FirstPushed(h) == ScanFwd(h, 1, 0, NoFrame)

-----------------------------------------------------------------------------
(* Runtime: Store, Instance, Caller and the execution loop.                 *)
(* Caller is func/caller.rs; the executor, the store and the guest modules  *)
(* of the executor tests are not part of the sources at hand and are        *)
(* modelled from their specification and from the tests that drive them.    *)

MemSize == 2        \* bytes of the linear memory
AddrBits == 2       \* width of a memory address operand (u32, scaled down)
MaxArg == 3         \* largest argument of factorial_rec / fibonacci_recursive

\* The host state of the host-call tests, their two HostData structs in one:
\* HostData { value: 42 } and HostData { condition: false, a: 1, b: 2 }.
HostData(value, condition, a, b) ==
    [value |-> value, condition |-> condition, a |-> a, b |-> b]
InitialState == HostData(42, FALSE, 1, 2)
ValueSamples == {-1, 0, 42, 2147483647}   \* test_for(wasm, &mut store, new_value)
DataSamples == {<<TRUE, 2, 3>>, <<FALSE, 2, 3>>}   \* HostData::new(condition, a, b)
ByteSamples == {0, 1, 255}                \* bytes written by Memory::write
StoreSamples == {1, 511}                  \* values stored by guest code
AccessSizes == {1, 2}                     \* access widths in bytes
AddrSamples == {0, 1, 2^AddrBits - 1}          \* address operands: low ones and the largest
CallStackLimit == MaxArg + 1              \* configured call-stack depth
TrapCodes == {"Unreachable", "MemoryAccessOutOfBounds", "StackOverflow"}

Zeros(n) == [i \in 1..n |-> 0]

\* Option<Instance>
Some_Instance(instance) == [some |-> TRUE, instance |-> instance]
None_Instance == [some |-> FALSE, instance |-> -1]

\* Option<Extern>
Extern_Func(idx) == [kind |-> "Func", idx |-> idx]
Extern_Memory(idx) == [kind |-> "Memory", idx |-> idx]
None_Extern == [kind |-> "None", idx |-> -1]

\* The two instances of the store, fixed once instantiated: instance 0
\* exports a function and a memory, instance 1 exports a function only.
Instances ==
    << [exports |-> [n \in {"wasm", "mem"} |->
                        IF n = "wasm" THEN Extern_Func(0) ELSE Extern_Memory(0)]],
       [exports |-> [n \in {"wasm"} |-> Extern_Func(1)]] >>

Instance_get_export(ctx, instance, name) ==
    LET exports == Instances[instance + 1].exports
    IN  IF name \in DOMAIN exports THEN exports[name] ELSE None_Extern

\* ---- Caller (func/caller.rs)

Caller_new(ctx, instance) == [store |-> ctx, instance |-> instance]

Caller_from_instance(ctx) == [store |-> ctx, instance |-> Some_Instance(0)]

Caller_from(ctx) == [store |-> ctx, instance |-> None_Instance]

Caller_get_export_first(self, name) == Instance_get_export(self.store, 0, name)

Caller_get_export(self, name) ==
    IF self.instance.some
    THEN Instance_get_export(self.store, self.instance.instance, name)
    ELSE None_Extern

Caller_host_data_initial(self) == InitialState

Caller_host_data(self) == self.store.state

\* ---- Host functions: the closures given to Func::wrap

HostFuncs ==
    << [api |-> "host_data", name |-> ""],
       [api |-> "host_data_multi", name |-> ""],
       [api |-> "get_export", name |-> "wasm"],
       [api |-> "get_export", name |-> "mem"],
       [api |-> "get_export", name |-> "absent"] >>

\* |ctx: Caller<HostData>| ctx.host_data().value,
\* |ctx: Caller<HostData>| (data.a, data.b, data.condition as i32),
\* and closures that look an export up and report whether it exists.
HostInvoke(h, caller) ==
    CASE HostFuncs[h].api = "host_data" ->
            [results |-> <<Caller_host_data(caller).value>>, extern |-> None_Extern]
      [] HostFuncs[h].api = "host_data_multi" ->
            LET data == Caller_host_data(caller)
            IN  [results |-> <<data.a, data.b, IF data.condition THEN 1 ELSE 0>>,
                 extern |-> None_Extern]
      [] HostFuncs[h].api = "get_export" ->
            LET e == Caller_get_export(caller, HostFuncs[h].name)
            IN  [results |-> <<IF e = None_Extern THEN 0 ELSE 1>>, extern |-> e]

\* ---- Linear memory

effective_address_wrapping(base, offset) == (base + offset) % (2^AddrBits)

effective_address(base, offset) == base + offset

RECURSIVE from_le_bytes(_)
from_le_bytes(bytes) ==
    IF bytes = <<>> THEN 0
    ELSE bytes[1] + 256 * from_le_bytes(Tail(bytes))

to_le_bytes(value, size) == [i \in 1..size |-> (value \div (256^(i - 1))) % 256]

sign_extend_none(value, size) == value

sign_extend(value, size) ==
    IF value >= 2^(8 * size - 1) THEN value - 2^(8 * size) ELSE value

Memory_load(memory, base, offset, size, signed) ==
    LET ea == effective_address(base, offset)
    IN  IF ea + size <= Len(memory)
        THEN LET raw == from_le_bytes(SubSeq(memory, ea + 1, ea + size))
             IN  [trap |-> "None",
                  value |-> IF signed THEN sign_extend(raw, size) ELSE raw]
        ELSE [trap |-> "MemoryAccessOutOfBounds", value |-> 0]

Memory_store(memory, base, offset, size, value) ==
    LET ea == effective_address(base, offset)
        bytes == to_le_bytes(value, size)
    IN  IF ea + size <= Len(memory)
        THEN [trap |-> "None",
              memory |-> [i \in 1..Len(memory) |->
                             IF i > ea /\ i <= ea + size THEN bytes[i - ea]
                                                          ELSE memory[i]]]
        ELSE [trap |-> "MemoryAccessOutOfBounds", memory |-> memory]

\* ---- Guest code

Inst(op, a, b) == [op |-> op, a |-> a, b |-> b]

Func(instance, name, a, b) == [a |-> a, b |-> b, instance |-> instance, name |-> name]

NoFunc == Func(-1, "", 0, 0)

Body(params, locals, results, code) ==
    [len_params |-> params, len_locals |-> locals,
     len_results |-> results, insts |-> code]

\* (func $fac (param i64) (result i64)
\*   if n == 0 then 1 else n * fac(n - 1))
factorial_rec(self) ==
    Body(1, 0, 1,
         << Inst("LocalGet", 0, 0), Inst("Eqz", 0, 0), Inst("BrIfEqz", 6, 0),
            Inst("Const", 1, 0), Inst("Return", 1, 0),
            Inst("LocalGet", 0, 0), Inst("LocalGet", 0, 0), Inst("Const", 1, 0),
            Inst("Sub", 0, 0), Inst("Call", self, 0), Inst("Mul", 0, 0),
            Inst("Return", 1, 0) >>)

\* (func $fib (param i32) (result i32)
\*   if n < 2 then n else fib(n - 1) + fib(n - 2))
fibonacci_recursive(self) ==
    Body(1, 0, 1,
         << Inst("LocalGet", 0, 0), Inst("Const", 2, 0), Inst("LtS", 0, 0),
            Inst("BrIfEqz", 7, 0), Inst("LocalGet", 0, 0), Inst("Return", 1, 0),
            Inst("LocalGet", 0, 0), Inst("Const", 1, 0), Inst("Sub", 0, 0),
            Inst("Call", self, 0),
            Inst("LocalGet", 0, 0), Inst("Const", 2, 0), Inst("Sub", 0, 0),
            Inst("Call", self, 0),
            Inst("Add", 0, 0), Inst("Return", 1, 0) >>)

\* (func (export "sum_bytes") (param $limit i32) (result i64)
\*   (local $n i32) (local $sum i64)
\*   while n != limit: sum += i64.load8_s(n); n += 1
\*   return sum)
sum_bytes ==
    Body(1, 2, 1,
         << Inst("LocalGet", 1, 0), Inst("LocalGet", 0, 0), Inst("Eq", 0, 0),
            Inst("BrIfNez", 15, 0),
            Inst("LocalGet", 2, 0), Inst("LocalGet", 1, 0), Inst("LoadS", 0, 1),
            Inst("Add", 0, 0), Inst("LocalSet", 2, 0),
            Inst("LocalGet", 1, 0), Inst("Const", 1, 0), Inst("Add", 0, 0),
            Inst("LocalSet", 1, 0), Inst("Br", 1, 0),
            Inst("LocalGet", 2, 0), Inst("Return", 1, 0) >>)

\* (func (export "wasm") (result i32) (call $host))
wasm(h) == Body(0, 0, 1, << Inst("CallHost", h, 0), Inst("Return", 1, 0) >>)

\* (func (export "wasm") (result i64) (call $host) (select))
wasm_select(h) ==
    Body(0, 0, 1, << Inst("CallHost", h, 0), Inst("Select", 0, 0),
                     Inst("Return", 1, 0) >>)

\* (func (param $base i32) (result i32) (iN.load offset=a (local.get $base)))
load(offset, size) ==
    Body(1, 0, 1, << Inst("LocalGet", 0, 0), Inst("LoadU", offset, size),
                     Inst("Return", 1, 0) >>)

\* (func (param $base i32) (param $value i32)
\*   (iN.store offset=a (local.get $base) (local.get $value)))
store_at(offset, size) ==
    Body(2, 0, 0, << Inst("LocalGet", 0, 0), Inst("LocalGet", 1, 0),
                     Inst("Store", offset, size), Inst("Return", 0, 0) >>)

\* (func $t (param $depth i32) (param $addr i32) (param $value i32)
\*   if depth != 0 then t(depth - 1, addr, value)
\*   else global 0 := value; i32.store8 addr value; unreachable)
trap_at_depth(self) ==
    Body(3, 0, 0,
         << Inst("LocalGet", 0, 0), Inst("BrIfEqz", 10, 0),
            Inst("LocalGet", 0, 0), Inst("Const", 1, 0), Inst("Sub", 0, 0),
            Inst("LocalGet", 1, 0), Inst("LocalGet", 2, 0),
            Inst("Call", self, 0), Inst("Return", 0, 0),
            Inst("LocalGet", 2, 0), Inst("GlobalSet", 0, 0),
            Inst("LocalGet", 1, 0), Inst("LocalGet", 2, 0),
            Inst("Store", 0, 1), Inst("Unreachable", 0, 0) >>)

\* The engine's code of a function.
Code(func) ==
    CASE func.name = "factorial_rec" -> factorial_rec(func)
      [] func.name = "fibonacci_recursive" -> fibonacci_recursive(func)
      [] func.name = "sum_bytes" -> sum_bytes
      [] func.name = "wasm" -> wasm(func.a)
      [] func.name = "wasm_select" -> wasm_select(func.a)
      [] func.name = "load" -> load(func.a, func.b)
      [] func.name = "store" -> store_at(func.a, func.b)
      [] func.name = "trap_at_depth" -> trap_at_depth(func)

\* ---- Execution loop

NoHostCall == [origin |-> "none", host |-> 0, instance |-> None_Instance,
               extern |-> None_Extern]

HostCall(origin, h, caller, r) ==
    [origin |-> origin, host |-> h, instance |-> caller.instance,
     extern |-> r.extern]

reset_keeping(stk) == stk

\* The value stack and the call stack are cleared on entry.
reset(stk) == [values |-> <<>>, frames |-> <<>>]

\* Func::call on a guest function: the registers after the arguments and the
\* zeroed locals are on the value stack.
Enter(func, args, ctx, stk) ==
    LET s == reset(stk)
    IN  [func |-> func, pc |-> 1, fp |-> 0,
         values |-> s.values \o args \o Zeros(Code(func).len_locals),
         frames |-> s.frames, entry_sp |-> 0,
         store |-> ctx, status |-> "run", trap |-> "None",
         host |-> NoHostCall]

Trap(m, code) == [m EXCEPT !.status = "trap", !.trap = code]

BinOp(op, lhs, rhs) ==
    CASE op = "Add" -> lhs + rhs
      [] op = "Sub" -> lhs - rhs
      [] op = "Mul" -> lhs * rhs
      [] op = "Eq"  -> IF lhs = rhs THEN 1 ELSE 0
      [] op = "LtS" -> IF lhs < rhs THEN 1 ELSE 0

Pop(values, n) == SubSeq(values, 1, Len(values) - n)

exec_call(m, callee) ==
    LET sp == Len(m.values)
        args == Code(callee).len_params
    IN  IF Len(m.frames) >= CallStackLimit
        THEN Trap(m, "StackOverflow")
        ELSE [m EXCEPT !.frames = Append(@, [return_func |-> m.func,
                                             return_pc |-> m.pc + 1,
                                             return_fp |-> m.fp,
                                             return_sp |-> sp - args]),
                       !.fp = sp - args,
                       !.values = @ \o Zeros(Code(callee).len_locals),
                       !.pc = 1,
                       !.func = callee]

exec_return(m, keep) ==
    LET sp == Len(m.values)
        kept == SubSeq(m.values, sp - keep + 1, sp)
        values == SubSeq(m.values, 1, m.fp) \o kept
    IN  IF m.frames = <<>>
        THEN [m EXCEPT !.values = values, !.status = "done"]
        ELSE LET frame == m.frames[Len(m.frames)]
             IN  [m EXCEPT !.values = values,
                           !.frames = SubSeq(@, 1, Len(@) - 1),
                           !.pc = frame.return_pc,
                           !.fp = frame.return_fp,
                           !.func = frame.return_func]

\* Host call: a Caller with the current instance, results copied back.
exec_call_host(m, h) ==
    LET caller == Caller_new(m.store, Some_Instance(m.func.instance))
        r == HostInvoke(h, caller)
    IN  [m EXCEPT !.values = @ \o r.results,
                  !.pc = @ + 1,
                  !.host = HostCall("wasm", h, caller, r)]

Step(m) ==
    LET inst == Code(m.func).insts[m.pc]
        sp == Len(m.values)
        next == [m EXCEPT !.pc = @ + 1]
    IN  CASE inst.op = "LocalGet" ->
                [next EXCEPT !.values = Append(@, m.values[m.fp + inst.a + 1])]
          [] inst.op = "LocalSet" ->
                [next EXCEPT !.values =
                    [Pop(m.values, 1) EXCEPT ![m.fp + inst.a + 1] = m.values[sp]]]
          [] inst.op = "GlobalSet" ->
                [next EXCEPT !.values = Pop(m.values, 1),
                             !.store.globals[inst.a + 1] = m.values[sp]]
          [] inst.op = "Const" ->
                [next EXCEPT !.values = Append(@, inst.a)]
          [] inst.op = "Eqz" ->
                [next EXCEPT !.values =
                    Append(Pop(m.values, 1), IF m.values[sp] = 0 THEN 1 ELSE 0)]
          [] inst.op \in {"Add", "Sub", "Mul", "Eq", "LtS"} ->
                [next EXCEPT !.values =
                    Append(Pop(m.values, 2),
                           BinOp(inst.op, m.values[sp - 1], m.values[sp]))]
          [] inst.op = "Select" ->
                [next EXCEPT !.values =
                    Append(Pop(m.values, 3),
                           IF m.values[sp] # 0 THEN m.values[sp - 2]
                                               ELSE m.values[sp - 1])]
          [] inst.op = "Br" -> [m EXCEPT !.pc = inst.a]
          [] inst.op = "BrIfEqz" ->
                [m EXCEPT !.values = Pop(m.values, 1),
                          !.pc = IF m.values[sp] = 0 THEN inst.a ELSE m.pc + 1]
          [] inst.op = "BrIfNez" ->
                [m EXCEPT !.values = Pop(m.values, 1),
                          !.pc = IF m.values[sp] # 0 THEN inst.a ELSE m.pc + 1]
          [] inst.op \in {"LoadS", "LoadU"} ->
                LET r == Memory_load(m.store.memory, m.values[sp], inst.a, inst.b,
                                     inst.op = "LoadS")
                IN  IF r.trap # "None" THEN Trap(m, r.trap)
                    ELSE [next EXCEPT !.values = Append(Pop(m.values, 1), r.value)]
          [] inst.op = "Store" ->
                LET r == Memory_store(m.store.memory, m.values[sp - 1], inst.a,
                                      inst.b, m.values[sp])
                IN  IF r.trap # "None" THEN Trap(m, r.trap)
                    ELSE [next EXCEPT !.values = Pop(m.values, 2),
                                      !.store.memory = r.memory]
          [] inst.op = "Call" -> exec_call(m, inst.a)
          [] inst.op = "CallHost" -> exec_call_host(m, inst.a)
          [] inst.op = "Return" -> exec_return(m, inst.a)
          [] inst.op = "Unreachable" -> Trap(m, "Unreachable")

RECURSIVE Run(_)
Run(m) == IF m.status # "run" THEN m ELSE Run(Step(m))

unwind_top_frame(m) ==
    [m EXCEPT !.frames = SubSeq(@, 1, Len(@) - 1),
              !.values = SubSeq(@, 1, m.entry_sp)]

\* A trap pops every frame and restores the stack pointer of the entry.
unwind(m) ==
    [m EXCEPT !.frames = <<>>,
              !.values = SubSeq(@, 1, m.entry_sp)]

\* Func::call on a guest function, from entry to its result or trap.
Execute(func, args, ctx, stk) ==
    LET m == Run(Enter(func, args, ctx, stk))
    IN  IF m.status = "trap"
        THEN LET u == unwind(m)
             IN  [results |-> <<>>, trap |-> u.trap, store |-> u.store,
                  stack |-> [values |-> u.values, frames |-> u.frames],
                  host |-> u.host]
        ELSE [results |-> SubSeq(m.values, 1, Code(func).len_results),
              trap |-> "None", store |-> m.store,
              stack |-> [values |-> m.values, frames |-> m.frames],
              host |-> m.host]

Outcome(op, func, args, results, trap, host) ==
    [op |-> op, func |-> func, args |-> args, results |-> results,
     trap |-> trap, host |-> host]

InitRuntime ==
    /\ store = [state |-> InitialState, memory |-> Zeros(MemSize),
                globals |-> <<0>>]
    /\ stack = [values |-> <<>>, frames |-> <<>>]
    /\ outcome = Outcome("new", NoFunc, <<>>, <<>>, "None", NoHostCall)

Init ==
    /\ frames = <<>>
    /\ insts = <<>>
    /\ labels = <<>>
    /\ relocs = <<>>
    /\ value_stack = <<>>
    /\ len_locals = 0
    /\ max_stack_height = 0
    /\ reachable = TRUE
    /\ panicked = FALSE
    /\ ret = Ret("new", FALSE, None, 0, 0)
    /\ log = <<>>
    /\ locals_log = <<>>
    /\ InitRuntime

-----------------------------------------------------------------------------
(* ControlFlowStack operations *)

push_frame(frame) ==
    /\ ~panicked
    /\ Len(frames) < MaxDepth
    /\ Len(log) < MaxOps
    /\ frames' = Vec_push(frames, frame)
    /\ log' = Append(log, PushEv(frame))
    /\ ret' = Ret("push_frame", FALSE, None, 0, 0)
    /\ UNCHANGED <<runtime, locals_log, builder, panicked>>

pop_frame ==
    /\ ~panicked
    /\ Len(log) < MaxOps
    /\ LET r == Vec_pop(frames) IN
        IF r.some
        THEN /\ frames' = Vec_rest(frames, r.idx)
             /\ log' = Append(log, PopEv)
             /\ ret' = Ret("pop_frame", FALSE, r, 0, 0)
             /\ UNCHANGED <<runtime, locals_log, builder, panicked>>
        ELSE /\ panicked' = TRUE
             /\ ret' = Ret("pop_frame", TRUE, None, 0, 0)
             /\ UNCHANGED <<runtime, locals_log, frames, builder, log>>

first ==
    /\ ~panicked
    /\ LET r == Vec_first(frames) IN
        /\ panicked' = ~r.some
        /\ ret' = Ret("first", ~r.some, r, 0, 0)
    /\ UNCHANGED <<runtime, locals_log, frames, builder, log>>

last_mut ==
    /\ ~panicked
    /\ LET r == Vec_last_mut(frames) IN
        /\ panicked' = ~r.some
        /\ ret' = Ret("last_mut", ~r.some, r, 0, 0)
    /\ UNCHANGED <<runtime, locals_log, frames, builder, log>>

nth_back_mut(depth) ==
    /\ ~panicked
    /\ LET r == Iter_nth_back(frames, depth) IN
        /\ panicked' = ~r.some
        /\ ret' = Ret("nth_back_mut", ~r.some, r, depth, 0)
    /\ UNCHANGED <<runtime, locals_log, frames, builder, log>>

stack_len ==
    /\ ~panicked
    /\ ret' = Ret("len", FALSE, None, 0, len(frames))
    /\ UNCHANGED <<runtime, locals_log, frames, builder, log, panicked>>

NextStack ==
    \/ \E f \in FrameSamples : push_frame(f)
    \/ pop_frame
    \/ first
    \/ last_mut
    \/ \E d \in 0..(MaxDepth + 1) : nth_back_mut(d)
    \/ stack_len

SpecStack == Init /\ [][NextStack]_vars

-----------------------------------------------------------------------------
(* InstructionsBuilder: instructions, label table and relocations *)

\* the sentinel InstructionIdx returned for a label that is not resolved yet:
\* the placeholder target of a forward branch; no emitted instruction has it
INVALID == 2147483647

Unresolved == [resolved |-> FALSE, pc |-> 0]

Resolved(pc) == [resolved |-> TRUE, pc |-> pc]

\* Target::new(dst_pc, DropKeep::new(drop, keep)) of a branch instruction
BrIfEqz(dst_pc, drop, keep) == [op |-> "BrIfEqz", dst |-> dst_pc, drop |-> drop, keep |-> keep]

\* the PC where the next instruction will land
current_pc(is) == Len(is)

\* allocates an unresolved label
new_label(ls) == [label |-> Len(ls), labels |-> Append(ls, Unresolved)]

\* appends the instruction and returns its index
push_inst(is, inst) == [idx |-> Len(is), insts |-> Append(is, inst)]

\* the PC of a resolved label; otherwise registers reloc and returns INVALID
InstructionsBuilder_try_resolve_label(ls, rs, label, reloc) ==
    IF ls[label + 1].resolved
    THEN [pc |-> ls[label + 1].pc, relocs |-> rs]
    ELSE [pc |-> INVALID, relocs |-> Append(rs, [label |-> label, reloc |-> reloc])]

\* a resolve_label that stores the new binding before it looks at the old one
resolve_label_rebinding(is, ls, rs, label) ==
    [ok |-> ~ls[label + 1].resolved,
     insts |-> is,
     labels |-> [ls EXCEPT ![label + 1] = Resolved(current_pc(is))],
     relocs |-> rs]

\* binds the label to the current PC and rewrites in place the instructions
\* its outstanding relocations name; fails on a resolved label
resolve_label(is, ls, rs, label) ==
    IF ls[label + 1].resolved
    THEN [ok |-> FALSE, insts |-> is, labels |-> ls, relocs |-> rs]
    ELSE LET dst_pc == current_pc(is)
             Uses(i) == \E k \in 1..Len(rs) :
                            rs[k].label = label /\ rs[k].reloc.inst_idx = i - 1
         IN  [ok |-> TRUE,
              insts |-> [i \in 1..Len(is) |->
                            IF Uses(i) THEN [is[i] EXCEPT !.dst = dst_pc] ELSE is[i]],
              labels |-> [ls EXCEPT ![label + 1] = Resolved(dst_pc)],
              relocs |-> SelectSeq(rs, LAMBDA r : r.label # label)]

\* a finish that hands out the code without looking at the label table
finish_unchecked(is, ls, rs) == [ok |-> TRUE, insts |-> is, relocs |-> <<>>]

\* fails if a label is unresolved; otherwise applies the pending relocations
\* and yields the instructions
finish(is, ls, rs) ==
    IF \E i \in 1..Len(ls) : ~ls[i].resolved
    THEN [ok |-> FALSE, insts |-> is, relocs |-> rs]
    ELSE LET Uses(i) == {k \in 1..Len(rs) : rs[k].reloc.inst_idx = i - 1}
             Dst(i) == ls[rs[CHOOSE k \in Uses(i) : TRUE].label + 1].pc
         IN  [ok |-> TRUE,
              insts |-> [i \in 1..Len(is) |->
                            IF Uses(i) # {} THEN [is[i] EXCEPT !.dst = Dst(i)] ELSE is[i]],
              relocs |-> <<>>]

-----------------------------------------------------------------------------
(* FunctionBuilder *)

BlockTypes == {"Empty", "I32"}

ValueTypes == {"I32", "I64"}

RelocKinds == {"Br", "BrTable"}

\* the reloc_provider closures handed to try_resolve_label
MakeReloc(kind, target_idx, pc) ==
    IF kind = "Br" THEN Reloc_Br(pc) ELSE Reloc_BrTable(pc, target_idx)

FunctionBuilder_try_resolve_label_next_pc(is, ls, rs, label, kind, target_idx) ==
    LET pc == current_pc(is) + 1
    IN  InstructionsBuilder_try_resolve_label(ls, rs, label, MakeReloc(kind, target_idx, pc))

FunctionBuilder_try_resolve_label(is, ls, rs, label, kind, target_idx) ==
    LET pc == current_pc(is)
    IN  InstructionsBuilder_try_resolve_label(ls, rs, label, MakeReloc(kind, target_idx, pc))

\* the state a translate_* operation that returns Ok(()) leaves behind
Done(op, block_type, fs, is, ls, rs) ==
    /\ frames' = fs
    /\ insts' = is
    /\ labels' = ls
    /\ relocs' = rs
    /\ log' = IF Len(fs) > Len(frames) THEN Append(log, PushEv(fs[Len(fs)])) ELSE log
    /\ ret' = [Ret(op, FALSE, None, 0, 0) EXCEPT !.block_type = block_type]
    /\ UNCHANGED <<runtime, locals_log, value_stack, len_locals, max_stack_height, reachable, panicked>>

CanPush == ~panicked /\ Len(frames) < MaxDepth /\ Len(log) < MaxOps

translate_locals_overwriting(amount, value_type) ==
    /\ ~panicked
    /\ len_locals + amount <= MaxLenLocals
    /\ Len(locals_log) < MaxLocalsCalls
    /\ len_locals' = amount
    /\ locals_log' = Append(locals_log, amount)
    /\ ret' = Ret("translate_locals", FALSE, None, amount, 0)
    /\ UNCHANGED <<runtime, frames, insts, labels, relocs, value_stack,
                   max_stack_height, reachable, panicked, log>>

translate_locals(amount, value_type) ==
    /\ ~panicked
    /\ len_locals + amount <= MaxLenLocals
    /\ Len(locals_log) < MaxLocalsCalls
    /\ len_locals' = len_locals + amount
    /\ locals_log' = Append(locals_log, amount)
    /\ ret' = Ret("translate_locals", FALSE, None, amount, 0)
    /\ UNCHANGED <<runtime, frames, insts, labels, relocs, value_stack,
                   max_stack_height, reachable, panicked, log>>

\* todo!(): the operation is not implemented and panics
todo(op) ==
    /\ ~panicked
    /\ panicked' = TRUE
    /\ ret' = Ret(op, TRUE, None, 0, 0)
    /\ UNCHANGED <<runtime, locals_log, frames, builder, log>>

translate_unreachable == todo("translate_unreachable")

translate_block_relocating(block_type) ==
    /\ CanPush
    /\ LET l == new_label(labels)
           t == FunctionBuilder_try_resolve_label(insts, l.labels, relocs,
                                                  l.label, "Br", 0)
       IN  Done("translate_block", block_type, Vec_push(frames, Block(l.label)),
                insts, l.labels, t.relocs)

translate_block_resolving(block_type) ==
    /\ CanPush
    /\ LET l == new_label(labels)
           r == resolve_label(insts, l.labels, relocs, l.label)
       IN  Done("translate_block", block_type, Vec_push(frames, Block(l.label)),
                r.insts, r.labels, r.relocs)

translate_block(block_type) ==
    /\ CanPush
    /\ LET l == new_label(labels)
           end_label == l.label
       IN  Done("translate_block", block_type, Vec_push(frames, Block(end_label)),
                insts, l.labels, relocs)

translate_loop_emitting(block_type) ==
    /\ CanPush
    /\ LET l == new_label(labels)
           r == resolve_label(insts, l.labels, relocs, l.label)
           p == push_inst(r.insts, BrIfEqz(current_pc(insts), 0, 0))
       IN  Done("translate_loop", block_type, Vec_push(frames, Loop(l.label)),
                p.insts, r.labels, r.relocs)

translate_loop_unresolved(block_type) ==
    /\ CanPush
    /\ LET l == new_label(labels)
       IN  Done("translate_loop", block_type, Vec_push(frames, Loop(l.label)),
                insts, l.labels, relocs)

translate_loop(block_type) ==
    /\ CanPush
    /\ LET l == new_label(labels)
           header == l.label
           r == resolve_label(insts, l.labels, relocs, header)
       IN  IF r.ok
           THEN Done("translate_loop", block_type, Vec_push(frames, Loop(header)),
                     r.insts, r.labels, r.relocs)
           ELSE /\ panicked' = TRUE
                /\ ret' = Ret("translate_loop", TRUE, None, 0, 0)
                /\ UNCHANGED <<runtime, locals_log, frames, builder, log>>

translate_if_one_label(block_type) ==
    /\ CanPush
    /\ LET l == new_label(labels)
           t == FunctionBuilder_try_resolve_label(insts, l.labels, relocs,
                                                  l.label, "Br", 0)
           p == push_inst(insts, BrIfEqz(t.pc, 0, 0))
       IN  Done("translate_if", block_type, Vec_push(frames, If(l.label, l.label)),
                p.insts, l.labels, t.relocs)

translate_if_end_target(block_type) ==
    /\ CanPush
    /\ LET l1 == new_label(labels)
           l2 == new_label(l1.labels)
           t == FunctionBuilder_try_resolve_label(insts, l2.labels, relocs,
                                                  l2.label, "Br", 0)
           p == push_inst(insts, BrIfEqz(t.pc, 0, 0))
       IN  Done("translate_if", block_type, Vec_push(frames, If(l1.label, l2.label)),
                p.insts, l2.labels, t.relocs)

translate_if(block_type) ==
    /\ CanPush
    /\ LET l1 == new_label(labels)
           else_label == l1.label
           l2 == new_label(l1.labels)
           end_label == l2.label
           fs == Vec_push(frames, If(else_label, end_label))
           t == FunctionBuilder_try_resolve_label(insts, l2.labels, relocs,
                                                  else_label, "Br", 0)
           dst_pc == t.pc
           p == push_inst(insts, BrIfEqz(dst_pc, 0, 0))
       IN  Done("translate_if", block_type, fs, p.insts, l2.labels, t.relocs)

translate_else == todo("translate_else")

translate_end == todo("translate_end")

translate_br(relative_depth) == todo("translate_br")

translate_br_if(relative_depth) == todo("translate_br_if")

translate_br_table(br_table) == todo("translate_br_table")

translate_return == todo("translate_return")

\* the relocations not registered by translate_if (one per If frame pushed)
DirectRelocs ==
    Len(relocs) - Cardinality({i \in 1..Len(frames) : frames[i].kind = "If"})

\* a call of the private helper FunctionBuilder::try_resolve_label
try_resolve_label(label, kind, target_idx) ==
    /\ ~panicked
    /\ label < Len(labels)
    /\ DirectRelocs < MaxResolveCalls
    /\ LET t == FunctionBuilder_try_resolve_label(insts, labels, relocs,
                                                  label, kind, target_idx)
       IN  /\ relocs' = t.relocs
           /\ ret' = [Ret("try_resolve_label", FALSE, None, label, t.pc)
                        EXCEPT !.reloc = MakeReloc(kind, target_idx, 0)]
    /\ UNCHANGED <<runtime, locals_log, frames, insts, labels, value_stack, len_locals,
                   max_stack_height, reachable, panicked, log>>

NextBuilder ==
    \/ \E a \in 0..MaxLocals, t \in ValueTypes : translate_locals(a, t)
    \/ translate_unreachable
    \/ \E bt \in BlockTypes : translate_block(bt)
    \/ \E bt \in BlockTypes : translate_loop(bt)
    \/ \E bt \in BlockTypes : translate_if(bt)
    \/ translate_else
    \/ translate_end
    \/ \E d \in 0..MaxDepth : translate_br(d)
    \/ \E d \in 0..MaxDepth : translate_br_if(d)
    \/ \E t \in {<<0>>, <<1, 0>>} : translate_br_table(t)
    \/ translate_return

Spec == Init /\ [][NextBuilder]_vars

\* The operations of the builder that are implemented.
NextImplemented ==
    \/ \E a \in 0..MaxLocals, t \in ValueTypes : translate_locals(a, t)
    \/ \E bt \in BlockTypes : translate_block(bt)
    \/ \E bt \in BlockTypes : translate_loop(bt)
    \/ \E bt \in BlockTypes : translate_if(bt)

SpecImplemented == Init /\ [][NextImplemented]_vars

\* The translate_* operations as methods on a builder whose reachable flag is
\* either value: the flag an unconditional control transfer is to clear.
InitAnyReachable ==
    /\ frames = <<>>
    /\ insts = <<>>
    /\ labels = <<>>
    /\ relocs = <<>>
    /\ value_stack = <<>>
    /\ len_locals = 0
    /\ max_stack_height = 0
    /\ reachable \in BOOLEAN
    /\ panicked = FALSE
    /\ ret = Ret("new", FALSE, None, 0, 0)
    /\ log = <<>>
    /\ locals_log = <<>>
    /\ InitRuntime

SpecAnyReachable == InitAnyReachable /\ [][NextBuilder]_vars

NextResolve ==
    \/ \E bt \in BlockTypes : translate_block(bt)
    \/ \E bt \in BlockTypes : translate_loop(bt)
    \/ \E bt \in BlockTypes : translate_if(bt)
    \/ \E l \in 0..(2 * MaxDepth), k \in RelocKinds, t \in 0..1 :
            try_resolve_label(l, k, t)

SpecResolve == Init /\ [][NextResolve]_vars

-----------------------------------------------------------------------------
(* The label table driven directly: resolve_label and finish *)

\* a call of InstructionsBuilder::resolve_label on an allocated label
call_resolve_label(label) ==
    /\ ~panicked
    /\ label < Len(labels)
    /\ LET r == resolve_label(insts, labels, relocs, label)
       IN  /\ insts' = r.insts
           /\ labels' = r.labels
           /\ relocs' = r.relocs
           /\ panicked' = ~r.ok
           /\ ret' = Ret("resolve_label", ~r.ok, None, label, current_pc(insts))
    /\ UNCHANGED <<runtime, locals_log, frames, value_stack, len_locals, max_stack_height, reachable, log>>

\* a call of InstructionsBuilder::finish, which consumes the builder
call_finish ==
    /\ ~panicked
    /\ LET r == finish(insts, labels, relocs)
       IN  /\ insts' = r.insts
           /\ relocs' = r.relocs
           /\ panicked' = ~r.ok
           /\ ret' = Ret("finish", ~r.ok, None, 0, Len(r.insts))
    /\ UNCHANGED <<runtime, locals_log, frames, labels, value_stack, len_locals, max_stack_height,
                   reachable, log>>

NextLabels ==
    /\ ret.op # "finish"
    /\ \/ \E bt \in BlockTypes : translate_block(bt)
       \/ \E bt \in BlockTypes : translate_loop(bt)
       \/ \E bt \in BlockTypes : translate_if(bt)
       \/ \E l \in 0..(2 * MaxDepth) : call_resolve_label(l)
       \/ call_finish

SpecLabels == Init /\ [][NextLabels]_vars

-----------------------------------------------------------------------------
(* Runtime operations *)

RuntimeDone(o, st, stk) ==
    /\ outcome' = o
    /\ store' = st
    /\ stack' = stk
    /\ UNCHANGED <<frames, builder, panicked, ret, log, locals_log>>

\* store.state_mut().value = new_value
state_mut_value(value) ==
    RuntimeDone(Outcome("state_mut", NoFunc, <<value>>, <<>>, "None", NoHostCall),
                [store EXCEPT !.state.value = value], stack)

\* *store.state_mut() = HostData::new(condition, a, b)
state_mut(condition, a, b) ==
    RuntimeDone(Outcome("state_mut", NoFunc, <<a, b>>, <<>>, "None", NoHostCall),
                [store EXCEPT !.state = HostData(@.value, condition, a, b)], stack)

\* mem.write(store.as_context_mut(), offset, &data)
Memory_write(offset, data) ==
    IF offset + Len(data) <= Len(store.memory)
    THEN RuntimeDone(Outcome("write", NoFunc, data, <<>>, "None", NoHostCall),
                     [store EXCEPT !.memory =
                         [i \in 1..Len(@) |->
                             IF i > offset /\ i <= offset + Len(data)
                             THEN data[i - offset] ELSE @[i]]],
                     stack)
    ELSE RuntimeDone(Outcome("write", NoFunc, data, <<>>, "MemoryAccessOutOfBounds",
                             NoHostCall),
                     store, stack)

\* func.call(store, args, results) on a guest function
Func_call(func, args) ==
    LET r == Execute(func, args, store, stack)
    IN  RuntimeDone(Outcome("call", func, args, r.results, r.trap, r.host),
                    r.store, r.stack)

\* A host function invoked from the host side: its Caller is the store
\* context converted with From.
host_call(h) ==
    LET caller == Caller_from(store)
        r == HostInvoke(h, caller)
    IN  RuntimeDone(Outcome("call_host", NoFunc, <<>>, r.results, "None",
                            HostCall("host", h, caller, r)),
                    store, stack)

SingleReturn == {h \in 1..Len(HostFuncs) : HostFuncs[h].api # "host_data_multi"}

call_wasm == \E i \in 0..1, h \in SingleReturn : Func_call(Func(i, "wasm", h, 0), <<>>)

call_wasm_select ==
    \E i \in 0..1, h \in 1..Len(HostFuncs) \ SingleReturn :
        Func_call(Func(i, "wasm_select", h, 0), <<>>)

call_factorial_rec == \E n \in 0..MaxArg : Func_call(Func(0, "factorial_rec", 0, 0), <<n>>)

call_fibonacci_recursive ==
    \E n \in 0..MaxArg : Func_call(Func(0, "fibonacci_recursive", 0, 0), <<n>>)

call_trap_at_depth ==
    \E d \in 0..(CallStackLimit + 1), a \in {0, MemSize}, v \in StoreSamples :
        Func_call(Func(0, "trap_at_depth", 0, 0), <<d, a, v>>)

NextHost ==
    \/ \E v \in ValueSamples : state_mut_value(v)
    \/ \E d \in DataSamples : state_mut(d[1], d[2], d[3])
    \/ \E h \in 1..Len(HostFuncs) : host_call(h)
    \/ call_wasm
    \/ call_wasm_select

SpecHost == Init /\ [][NextHost]_vars

NextExec ==
    \/ call_factorial_rec
    \/ call_fibonacci_recursive
    \/ call_trap_at_depth

SpecExec == Init /\ [][NextExec]_vars

ByteSeqs == UNION {[1..n -> ByteSamples] : n \in 0..MemSize}

call_sum_bytes == \E limit \in 0..MemSize : Func_call(Func(0, "sum_bytes", 0, 0), <<limit>>)

call_load ==
    \E base \in AddrSamples, offset \in AddrSamples, size \in AccessSizes :
        Func_call(Func(0, "load", offset, size), <<base>>)

call_store ==
    \E base \in AddrSamples, offset \in AddrSamples, size \in AccessSizes, v \in StoreSamples :
        Func_call(Func(0, "store", offset, size), <<base, v>>)

NextMemory ==
    \/ \E data \in ByteSeqs : Memory_write(0, data)
    \/ call_sum_bytes
    \/ call_load
    \/ call_store

SpecMemory == Init /\ [][NextMemory]_vars

-----------------------------------------------------------------------------
(* Properties of the ControlFlowStack, checked under SpecStack *)

\* C1: on a stack of n frames, for every depth d < n nth_back_mut(d) returns
\* the d-th frame counted from the top, that is the frame pushed (d+1)-th
\* most recently among those not yet popped, and nth_back_mut(0) returns the
\* same frame as last_mut().
C1_NthBackFromTop ==
    /\ \A d \in 0..(len(frames) - 1) :
        LET r == Iter_nth_back(frames, d) IN
            /\ r.some
            /\ r.idx = len(frames) - d
            /\ r.frame = NthRecent(log, d)
    /\ (len(frames) > 0 => Iter_nth_back(frames, 0) = Vec_last_mut(frames))
    /\ (ret.op = "nth_back_mut" /\ ~ret.panic =>
            /\ ret.idx = len(frames) - ret.arg
            /\ ret.frame = NthRecent(log, ret.arg)
            /\ (ret.arg = 0 => ret.idx = Vec_last_mut(frames).idx
                               /\ ret.frame = Vec_last_mut(frames).frame))

C1_Witness ==
    /\ ret.op = "nth_back_mut" /\ ~ret.panic
    /\ ret.arg = 1
    /\ len(frames) = 3
    /\ Pops(log) > 0
    /\ frames[1] # frames[2] /\ frames[2] # frames[3]

C3_Lifo ==
    /\ [](/\ len(frames) = Pushes(log) - Pops(log)
          /\ (ret.op = "len" => ret.out = Pushes(log) - Pops(log))
          /\ (ret.op = "pop_frame" /\ ~ret.panic =>
                ret.frame = NthRecent(Front(log), 0)))
    /\ [][/\ (ret'.op = "push_frame" =>
                /\ Len(frames') = Len(frames) + 1
                /\ SubSeq(frames', 1, Len(frames)) = frames
                /\ frames'[Len(frames')] = log'[Len(log')].frame)
          /\ (ret'.op = "pop_frame" /\ frames # <<>> =>
                /\ ~ret'.panic
                /\ ret'.frame = frames[Len(frames)]
                /\ frames' = SubSeq(frames, 1, Len(frames) - 1))]_vars

C3_Witness ==
    /\ ret.op = "pop_frame" /\ ~ret.panic
    /\ Pops(log) = 2
    /\ len(frames) = 1
    /\ ret.frame # frames[1]

\* C4: on an empty stack pop_frame, first and last_mut each panic instead of
\* returning a frame and the stack is still empty afterwards; on a non-empty
\* stack none of them panics.
C4_PanicIffEmpty ==
    [][ret'.op \in {"pop_frame", "first", "last_mut"} =>
            /\ (ret'.panic <=> frames = <<>>)
            /\ (ret'.panic => ~ret'.some /\ frames' = <<>> /\ panicked')
            /\ (~ret'.panic => ret'.some /\ ~panicked')]_vars

C4_Witness ==
    /\ ret.op = "pop_frame" /\ ret.panic
    /\ frames = <<>>
    /\ Pops(log) > 0

\* C5: while the stack is non-empty, first() returns the frame that was
\* pushed first, however many frames were pushed and popped above it, and it
\* is the frame nth_back_mut(len() - 1) returns.
C5_FirstIsBottom ==
    /\ (frames # <<>> =>
            /\ Vec_first(frames).some
            /\ Vec_first(frames).frame = FirstPushed(log)
            /\ Vec_first(frames) = Iter_nth_back(frames, len(frames) - 1))
    /\ (ret.op = "first" /\ ~ret.panic =>
            /\ ret.frame = FirstPushed(log)
            /\ ret.idx = Iter_nth_back(frames, len(frames) - 1).idx
            /\ ret.frame = Iter_nth_back(frames, len(frames) - 1).frame)

C5_Witness ==
    /\ ret.op = "first" /\ ~ret.panic
    /\ Pops(log) > 0
    /\ len(frames) = 2
    /\ frames[1] # frames[2]

-----------------------------------------------------------------------------
(* Properties of the FunctionBuilder, checked under Spec and SpecResolve *)

Top(fs) == fs[Len(fs)]

\* the step appended exactly the labels `new` to the label table
Allocated(new) ==
    /\ Len(labels') = Len(labels) + Len(new)
    /\ SubSeq(labels', 1, Len(labels)) = labels
    /\ \A k \in 1..Len(new) : new[k] = Len(labels) + k - 1

\* C6: immediately after FunctionBuilder::new the control-frame stack holds
\* exactly one frame, the implicit function-body frame, and reachable is
\* true.
C6_NewHasFunctionFrame ==
    ret.op = "new" => len(frames) = 1 /\ reachable = TRUE

\* C7: translating `if` allocates two new labels, else_label and end_label,
\* pushes an If frame carrying exactly those two on top of the control-frame
\* stack, and appends exactly one instruction, a BrIfEqz with drop = 0 and
\* keep = 0 whose target refers to else_label: the else_label is unresolved,
\* so the target is the placeholder and the relocation registered for
\* else_label names that instruction.
C7_TranslateIf ==
    [][ret'.op = "translate_if" =>
        LET f == Top(frames')
            inst == insts'[Len(insts')]
        IN  /\ frames' = Append(frames, f)
            /\ f.kind = "If"
            /\ f.else_label # f.end_label
            /\ Allocated(<<f.else_label, f.end_label>>)
            /\ ~labels'[f.else_label + 1].resolved
            /\ ~labels'[f.end_label + 1].resolved
            /\ insts' = Append(insts, inst)
            /\ inst.op = "BrIfEqz" /\ inst.drop = 0 /\ inst.keep = 0
            /\ inst.dst = INVALID
            /\ relocs' = Append(relocs, [label |-> f.else_label,
                                         reloc |-> Reloc_Br(Len(insts))])]_vars

C7_Witness ==
    /\ ret.op = "translate_if"
    /\ len(frames) = 3
    /\ Top(frames).kind = "If"
    /\ Top(frames).else_label = 3
    /\ Len(insts) = 2
    /\ frames[2].kind = "Loop"

C9_TranslateBlock ==
    /\ [][ret'.op = "translate_block" =>
            LET f == Top(frames')
            IN  /\ frames' = Append(frames, f)
                /\ f.kind = "Block"
                /\ Allocated(<<f.end_label>>)
                /\ ~labels'[f.end_label + 1].resolved
                /\ insts' = insts /\ relocs' = relocs]_vars
    /\ [](\A i \in 1..Len(frames) :
            frames[i].kind = "Block" =>
                /\ frames[i].end_label < Len(labels)
                /\ ~labels[frames[i].end_label + 1].resolved)

C9_Witness ==
    /\ len(frames) = 3
    /\ frames[1].kind = "Block"
    /\ frames[2].kind = "Loop"
    /\ frames[3].kind = "If"
    /\ ret.op = "translate_end"

\* C10: try_resolve_label(l, make_reloc) returns the bound PC of a resolved
\* label l and registers no relocation; for an unresolved l it registers
\* exactly one relocation, make_reloc(pc) with pc the current PC at the time
\* of the call, and returns the placeholder; either way the emitted
\* instructions and the label bindings are unchanged.
C10_TryResolveLabel ==
    [][ret'.op = "try_resolve_label" =>
        LET l == ret'.arg
            pc == current_pc(insts)
        IN  /\ insts' = insts
            /\ labels' = labels
            /\ IF labels[l + 1].resolved
               THEN /\ ret'.out = labels[l + 1].pc
                    /\ relocs' = relocs
               ELSE /\ ret'.out = INVALID
                    /\ relocs' = Append(relocs,
                            [label |-> l,
                             reloc |-> [ret'.reloc EXCEPT !.inst_idx = pc]])]_vars

C10_Witness ==
    /\ ret.op = "try_resolve_label"
    /\ ret.out = INVALID
    /\ ret.reloc.kind = "BrTable"
    /\ Len(relocs) = 2
    /\ relocs[2].reloc = Reloc_BrTable(1, 1)
    /\ relocs[2].label = ret.arg
    /\ \E i \in 1..Len(frames) : frames[i] = Block(ret.arg)
    /\ \E j \in 1..Len(labels) : labels[j].resolved

\* the If frames on the stack, in the order they were pushed
IfFrames == SelectSeq(frames, LAMBDA f : f.kind = "If")

\* C11: resolve_label(l) binds an unresolved label l to the current PC; on
\* an already resolved label it fails and leaves the binding unchanged, so
\* over any sequence of operations the bound PC of a label never changes
\* once it is set.
C11_ResolveLabelOnce ==
    [][/\ (ret'.op = "resolve_label" =>
            LET l == ret'.arg
            IN  IF labels[l + 1].resolved
                THEN ret'.panic /\ labels' = labels /\ insts' = insts
                ELSE /\ ~ret'.panic
                     /\ labels' = [labels EXCEPT ![l + 1] = Resolved(current_pc(insts))])
       /\ \A i \in 1..Len(labels) :
            labels[i].resolved => labels'[i] = labels[i]]_vars

C11_Witness ==
    /\ ret.op = "resolve_label" /\ ret.panic
    /\ labels[ret.arg + 1].resolved
    /\ labels[ret.arg + 1].pc = 1
    /\ current_pc(insts) = 2
    /\ \E i \in 1..Len(labels) : labels[i] = Resolved(2)

\* C12: finish() fails if any allocated label is still unresolved; when it
\* succeeds every pending relocation has been applied, so every branch
\* emitted with a placeholder target carries the resolved PC of its label and
\* no emitted instruction refers to an unresolved label.
C12_Finish ==
    ret.op = "finish" =>
        /\ (ret.panic <=> \E i \in 1..Len(labels) : ~labels[i].resolved)
        /\ (~ret.panic =>
                /\ relocs = <<>>
                /\ Len(insts) = Len(IfFrames)
                /\ \A j \in 1..Len(insts) :
                    /\ insts[j].dst # INVALID
                    /\ labels[IfFrames[j].else_label + 1].resolved
                    /\ insts[j].dst = labels[IfFrames[j].else_label + 1].pc)

C12_Witness ==
    /\ ret.op = "finish" /\ ~ret.panic
    /\ Len(insts) = 2
    /\ insts[1].dst = 1
    /\ insts[2].dst = 2
    /\ labels[IfFrames[1].end_label + 1].pc = 2

C14_ShadowStack ==
    /\ [](max_stack_height >= Len(value_stack))
    /\ [][ret'.op = "translate_if" =>
            /\ ~ret'.panic
            /\ value_stack = Append(value_stack', "I32")]_vars

\* C15: every control frame pushed by translating `block`, `loop` or `if`
\* records the declared block type of the operator and the height of the
\* shadow value stack at the moment the frame was entered.
C15_FrameRecordsTypeAndHeight ==
    [][ret'.op \in {"translate_block", "translate_loop", "translate_if"}
       /\ ~ret'.panic =>
            LET f == Top(frames')
            IN  /\ "block_type" \in DOMAIN f
                /\ "height" \in DOMAIN f
                /\ f.block_type = ret'.block_type
                /\ f.height = Len(value_stack)]_vars

\* C17: translating `end` resolves the end_label of the top frame to the
\* current PC (nothing is resolved for a Loop frame), emits a Return if the
\* frame is the function-body frame (the bottom one), and pops exactly one
\* frame, so a well-nested block/loop/if ... end leaves the depth as it was.
C17_TranslateEnd ==
    [][ret'.op = "translate_end" =>
            /\ ~ret'.panic
            /\ frames # <<>>
            /\ frames' = SubSeq(frames, 1, Len(frames) - 1)
            /\ LET f == Top(frames)
               IN  IF f.kind = "Loop"
                   THEN labels' = labels
                   ELSE labels' = [labels EXCEPT ![f.end_label + 1] =
                                        Resolved(current_pc(insts))]
            /\ IF Len(frames) = 1
               THEN /\ Len(insts') = Len(insts) + 1
                    /\ insts'[Len(insts')].op = "Return"
               ELSE Len(insts') = Len(insts)]_vars

\* C18: translating `else` emits a Br to the end_label of the top If frame,
\* resolves its else_label to the PC following that Br, replaces the If frame
\* by an Else frame with the same end_label (the depth is unchanged), and
\* sets reachable to true.
C18_TranslateElse ==
    [][ret'.op = "translate_else" =>
            /\ ~ret'.panic
            /\ frames # <<>>
            /\ LET f == Top(frames)
               IN  /\ f.kind = "If"
                   /\ frames' = [frames EXCEPT ![Len(frames)] = Else(f.end_label)]
                   /\ Len(insts') = Len(insts) + 1
                   /\ insts'[Len(insts')].op = "Br"
                   /\ \E k \in 1..Len(relocs') :
                        relocs'[k] = [label |-> f.end_label,
                                      reloc |-> Reloc_Br(Len(insts))]
                   /\ labels'[f.else_label + 1] = Resolved(Len(insts) + 1)
            /\ reachable']_vars

\* C19: a branch (`br`, `br_if`, each `br_table` target) to relative depth d
\* whose target frame has entry height h and result arity n is emitted with
\* DropKeep drop = current_height - h - n and keep = n, targeting the header
\* of a Loop frame and the end label of a Block, If or Else frame.
C19_BranchDropKeep ==
    [][ret'.op \in {"translate_br", "translate_br_if", "translate_br_table"} =>
            /\ ~ret'.panic
            /\ Len(insts') = Len(insts) + 1
            /\ LET r == Iter_nth_back(frames, ret'.arg)
                   f == r.frame
                   inst == insts'[Len(insts')]
                   l == IF f.kind = "Loop" THEN f.header ELSE f.end_label
               IN  /\ r.some
                   /\ "height" \in DOMAIN f /\ "arity" \in DOMAIN f
                   /\ inst.keep = f.arity
                   /\ inst.drop = Len(value_stack) - f.height - f.arity
                   /\ IF labels[l + 1].resolved
                      THEN inst.dst = labels[l + 1].pc
                      ELSE \E k \in 1..Len(relocs') :
                              /\ relocs'[k].label = l
                              /\ relocs'[k].reloc.inst_idx = Len(insts)]_vars

\* C20: after translating an unconditional control transfer (`br`, `return`,
\* `unreachable`) reachable is false, and it stays false across every
\* following opcode until the next `else` or `end`, which sets it to true.
C20_UnreachableAfterTransfer ==
    /\ [](ret.op \in {"translate_br", "translate_return", "translate_unreachable"} =>
            ~ret.panic /\ ~reachable)
    /\ [][IF ret'.op \in {"translate_else", "translate_end"}
          THEN ~ret'.panic /\ reachable'
          ELSE ~reachable => ~reachable']_vars

-----------------------------------------------------------------------------
(* Properties of Caller and of host calls, checked under SpecHost *)

\* The host function of the last operation, when that operation invoked one.
HostCalled(o) == o.host.origin # "none"
HostApi(o) == HostFuncs[o.host.host].api
HostName(o) == HostFuncs[o.host.host].name

C22_GetExport ==
    [][(HostCalled(outcome') /\ HostApi(outcome') = "get_export") =>
            LET i == outcome'.host.instance
                name == HostName(outcome')
                absent == \/ ~i.some
                          \/ name \notin DOMAIN Instances[i.instance + 1].exports
            IN  /\ absent => outcome'.host.extern = None_Extern
                /\ ~absent =>
                      /\ outcome'.host.extern # None_Extern
                      /\ outcome'.host.extern =
                             Instance_get_export(store, i.instance, name)
                /\ store' = store]_vars

C22_Witness ==
    /\ HostCalled(outcome)
    /\ HostApi(outcome) = "get_export"
    /\ outcome.host.instance = Some_Instance(0)
    /\ outcome.host.extern = Extern_Memory(0)

\* C23: whatever updates of the host state precede it, a call of the guest
\* function that invokes the imported host function returns what the host
\* state holds when the call is made: its value for the single-return host
\* function, a or b by its condition for the multi-return one.
C23_HostStateAtCallTime ==
    [][(outcome'.op = "call" /\ HostCalled(outcome')) =>
            /\ outcome'.trap = "None"
            /\ HostApi(outcome') = "host_data" =>
                  outcome'.results = <<store.state.value>>
            /\ HostApi(outcome') = "host_data_multi" =>
                  outcome'.results =
                      <<IF store.state.condition THEN store.state.a
                                                 ELSE store.state.b>>]_vars

C23_Witness ==
    /\ outcome.op = "call"
    /\ HostCalled(outcome)
    /\ HostApi(outcome) = "host_data"
    /\ outcome.results = <<2147483647>>
    /\ store.state.condition

-----------------------------------------------------------------------------
(* Properties of the execution loop, checked under SpecExec *)

\* factorial_numbers() and fibonacci_numbers() of the executor tests
FactorialNumbers == <<1, 1, 2, 6, 24, 120, 720, 5040, 40320, 362880>>
FibonacciNumbers == <<0, 1, 1, 2, 3, 5, 8, 13, 21, 34, 55, 89, 144, 233, 377, 610, 987>>

\* C24: the value stack and the call stack are reset per invocation: after
\* any earlier calls on the same store, recursive and trapping ones included,
\* a call of factorial_rec or fibonacci_recursive returns the number that
\* belongs to its argument, and leaves only its result on the value stack
\* and no frame on the call stack.
C24_ResetPerInvocation ==
    (outcome.op = "call"
        /\ outcome.func.name \in {"factorial_rec", "fibonacci_recursive"}) =>
        /\ outcome.trap = "None"
        /\ outcome.results =
              <<IF outcome.func.name = "factorial_rec"
                THEN FactorialNumbers[outcome.args[1] + 1]
                ELSE FibonacciNumbers[outcome.args[1] + 1]>>
        /\ stack.values = outcome.results
        /\ stack.frames = <<>>

C24_Witness ==
    /\ outcome.op = "call"
    /\ outcome.func.name = "factorial_rec"
    /\ outcome.results = <<6>>
    /\ store.globals # <<0>>

\* C25: a trap at any call depth pops every Wasm frame down to the entering
\* call, restores the stack pointer of the entry, and is returned as one
\* trap code without results; what the guest wrote to the global and to
\* memory before the trap is in the store afterwards, and nothing else is.
C25_TrapUnwinds ==
    [][(outcome'.op = "call" /\ outcome'.func.name = "trap_at_depth") =>
            LET depth == outcome'.args[1]
                addr == outcome'.args[2]
                value == outcome'.args[3]
            IN  /\ outcome'.trap \in TrapCodes
                /\ outcome'.results = <<>>
                /\ stack'.frames = <<>>
                /\ stack'.values = <<>>
                /\ IF depth > CallStackLimit
                   THEN /\ outcome'.trap = "StackOverflow"
                        /\ store' = store
                   ELSE /\ store'.globals = <<value>>
                        /\ store'.state = store.state
                        /\ IF addr + 1 > MemSize
                           THEN /\ outcome'.trap = "MemoryAccessOutOfBounds"
                                /\ store'.memory = store.memory
                           ELSE /\ outcome'.trap = "Unreachable"
                                /\ store'.memory =
                                      [store.memory EXCEPT ![addr + 1] = value % 256]]_vars

C25_Witness ==
    /\ outcome.op = "call"
    /\ outcome.func.name = "trap_at_depth"
    /\ outcome.args[1] = 2
    /\ outcome.trap = "Unreachable"
    /\ store.memory[1] = 255
    /\ stack.frames = <<>>

-----------------------------------------------------------------------------
(* Properties of memory accesses, checked under SpecMemory *)

\* C26: a load or store of `size` bytes at base + offset, the sum taken
\* without wrap-around at the operand width, traps MemoryAccessOutOfBounds
\* exactly when base + offset + size exceeds the memory size; otherwise the
\* load returns the little-endian value of the bytes at that address and the
\* store writes them there; a trapping store leaves memory unchanged.
C26_MemoryAccess ==
    [][(outcome'.op = "call" /\ outcome'.func.name \in {"load", "store"}) =>
            LET base == outcome'.args[1]
                offset == outcome'.func.a
                size == outcome'.func.b
                ea == base + offset
                oob == ea + size > Len(store.memory)
            IN  /\ outcome'.trap = IF oob THEN "MemoryAccessOutOfBounds" ELSE "None"
                /\ oob => store' = store
                /\ (~oob /\ outcome'.func.name = "load") =>
                      /\ store' = store
                      /\ outcome'.results =
                            <<IF size = 1 THEN store.memory[ea + 1]
                              ELSE store.memory[ea + 1] + 256 * store.memory[ea + 2]>>
                /\ (~oob /\ outcome'.func.name = "store") =>
                      LET v == outcome'.args[2]
                      IN  /\ Len(store'.memory) = Len(store.memory)
                          /\ \A i \in 1..Len(store.memory) :
                                store'.memory[i] =
                                    IF i = ea + 1 THEN v % 256
                                    ELSE IF size = 2 /\ i = ea + 2
                                         THEN (v \div 256) % 256
                                         ELSE store.memory[i]]_vars

C26_Witness ==
    /\ outcome.op = "call"
    /\ outcome.func.name = "store"
    /\ outcome.func.a + outcome.args[1] = 2^AddrBits
    /\ outcome.func.b = 1
    /\ outcome.trap = "MemoryAccessOutOfBounds"
    /\ store.memory # Zeros(MemSize)

\* byte as i8 as i64
as_i8(byte) == IF byte > 127 THEN byte - 256 ELSE byte

RECURSIVE SumSigned(_, _)
SumSigned(bytes, n) ==
    IF n = 0 THEN 0 ELSE SumSigned(bytes, n - 1) + as_i8(bytes[n])

\* C27: sum_bytes(limit) returns the sum of the first `limit` bytes of the
\* memory, each sign-extended from 8 bits (0xFF counts -1), and 0 when limit
\* is 0, whatever bytes were written to the memory before.
C27_SumBytes ==
    (outcome.op = "call" /\ outcome.func.name = "sum_bytes") =>
        /\ outcome.trap = "None"
        /\ outcome.results = <<SumSigned(store.memory, outcome.args[1])>>
        /\ outcome.args[1] = 0 => outcome.results = <<0>>

C27_Witness ==
    /\ outcome.op = "call"
    /\ outcome.func.name = "sum_bytes"
    /\ outcome.args = <<MemSize>>
    /\ \A i \in 1..MemSize : store.memory[i] = 255
    /\ outcome.results = <<-MemSize>>

-----------------------------------------------------------------------------
(* Frame effects of translate_block, translate_loop and translate_if,      *)
(* checked under Spec                                                        *)

\* C28: translate_if registers exactly one relocation, for the else_label of
\* the frame it pushes, and the use-site that relocation records is the
\* index of the BrIfEqz this translate_if emits: the PC read before the push
\* is the index push_inst gives the instruction.  So every registered
\* relocation names a BrIfEqz of its own.
C28_RelocUseSite ==
    /\ [][ret'.op = "translate_if" =>
            LET idx == Len(insts') - 1
                r == relocs'[Len(relocs')]
            IN  /\ Len(relocs') = Len(relocs) + 1
                /\ SubSeq(relocs', 1, Len(relocs)) = relocs
                /\ Len(insts') = Len(insts) + 1
                /\ r.label = Top(frames').else_label
                /\ r.reloc.kind = "Br"
                /\ r.reloc.inst_idx = idx
                /\ insts'[idx + 1].op = "BrIfEqz"]_vars
    /\ [](\A j, k \in 1..Len(relocs) :
            /\ relocs[k].reloc.inst_idx < Len(insts)
            /\ insts[relocs[k].reloc.inst_idx + 1].op = "BrIfEqz"
            /\ j # k => relocs[j].reloc.inst_idx # relocs[k].reloc.inst_idx)

C28_Witness ==
    /\ ret.op = "translate_if"
    /\ Len(relocs) = 2
    /\ relocs[2].reloc.inst_idx = 1
    /\ relocs[2].label = Top(frames).else_label
    /\ len(frames) = 3
    /\ frames[2].kind = "Block"

\* the labels a frame stores
FrameLabels(f) ==
    CASE f.kind = "Block" -> <<f.end_label>>
      [] f.kind = "Loop" -> <<f.header>>
      [] f.kind = "If" -> <<f.else_label, f.end_label>>
      [] f.kind = "Else" -> <<f.end_label>>

RECURSIVE StackLabels(_)
StackLabels(fs) ==
    IF fs = <<>> THEN <<>> ELSE FrameLabels(Head(fs)) \o StackLabels(Tail(fs))

\* C29: after any sequence of translate_block, translate_loop and
\* translate_if the labels stored in the frames of the control-frame stack
\* are pairwise distinct: no label is in two frames, and the else_label of an
\* If frame is not its end_label.
C29_FrameLabelsDistinct ==
    LET ls == StackLabels(frames)
    IN  \A i, j \in 1..Len(ls) : i # j => ls[i] # ls[j]

C29_Witness ==
    /\ len(frames) = 3
    /\ frames[1].kind = "If"
    /\ frames[2].kind = "Loop"
    /\ frames[3].kind = "If"
    /\ Len(StackLabels(frames)) = 5

\* C30: translate_block and translate_loop return Ok, make the control-frame
\* stack one frame deeper and leave the emitted instructions, the relocation
\* list, len_locals and reachable as they were; translate_if makes the stack
\* one frame deeper too and appends exactly one instruction.
C30_FrameEffect ==
    [][/\ ret'.op \in {"translate_block", "translate_loop"} =>
            /\ ~ret'.panic
            /\ len(frames') = len(frames) + 1
            /\ SubSeq(frames', 1, len(frames)) = frames
            /\ insts' = insts
            /\ relocs' = relocs
            /\ len_locals' = len_locals
            /\ reachable' = reachable
       /\ ret'.op = "translate_if" =>
            /\ ~ret'.panic
            /\ len(frames') = len(frames) + 1
            /\ SubSeq(frames', 1, len(frames)) = frames
            /\ Len(insts') = Len(insts) + 1
            /\ SubSeq(insts', 1, Len(insts)) = insts]_vars

C30_Witness ==
    /\ ret.op = "translate_loop"
    /\ ~ret.panic
    /\ len(frames) = 2
    /\ frames[1].kind = "If"
    /\ Len(insts) = 1
    /\ Len(relocs) = 1
    /\ len_locals = 2

-----------------------------------------------------------------------------
(* Properties of the implemented operations, checked under SpecImplemented *)

RECURSIVE SumSeq(_)
SumSeq(q) == IF q = <<>> THEN 0 ELSE Head(q) + SumSeq(Tail(q))

\* C31: after any sequence of translate_locals calls len_locals is the sum
\* of the amounts of all of them, whatever block, loop and if operators were
\* translated in between; each call returns Ok and leaves the control-frame
\* stack, the shadow value stack, the emitted instructions and reachable as
\* they were.
C31_TranslateLocals ==
    /\ [](len_locals = SumSeq(locals_log))
    /\ [][ret'.op = "translate_locals" =>
            /\ ~ret'.panic
            /\ frames' = frames
            /\ value_stack' = value_stack
            /\ insts' = insts
            /\ reachable' = reachable]_vars

C31_Witness ==
    /\ ret.op = "translate_locals"
    /\ locals_log = <<1, 2>>
    /\ len_locals = 3
    /\ len(frames) = 2
    /\ Len(insts) = 1

\* the `if` operators translated so far
TranslatedIfs == Len(SelectSeq(log, LAMBDA e : e.ev = "push" /\ e.frame.kind = "If"))

\* C32: in every state reached from FunctionBuilder::new by translate_locals,
\* translate_block, translate_loop and translate_if, reachable is true,
\* max_stack_height is 0, and there are as many emitted instructions as `if`
\* operators translated so far.
C32_ImplementedOpsInvariant ==
    /\ reachable = TRUE
    /\ max_stack_height = 0
    /\ Len(insts) = TranslatedIfs

C32_Witness ==
    /\ ~panicked
    /\ len(frames) = 3
    /\ frames[1].kind = "If"
    /\ frames[2].kind = "Loop"
    /\ frames[3].kind = "If"
    /\ Len(insts) = 2
    /\ len_locals = 2

====
